---- MODULE Spec2Model ----
(***************************************************************************)
(* A model of gcp-auto-lb-clean: the App Engine handlers that look for     *)
(* dangling GKE HTTP(S) load balancers (app.go) and the resolver helpers   *)
(* they use (autolbclean.go).                                              *)
(*                                                                         *)
(* A Go string is a sequence of chunks of characters; the path separator   *)
(* "/" is always a chunk of its own, so that strings.Index, LastIndex and  *)
(* HasPrefix are computed on the sequence the way Go computes them on the  *)
(* characters.  The empty string is <<>>.                                  *)
(*                                                                         *)
(* Times are whole seconds, the resolution of the RFC3339 stamps the tasks *)
(* carry.  A time stamp string is [valid, sec]: valid is FALSE for a       *)
(* string time.Parse rejects (the empty string of a missing parameter      *)
(* included).                                                              *)
(***************************************************************************)
EXTENDS Integers, Sequences, FiniteSets, Bags, TLC

(***************************************************************************)
(* Bounds of the model.                                                    *)
(***************************************************************************)
\* how many times the clock advances
MaxTicks == 2
\* how many passes cron asks for
MaxPasses == 1
\* how many instances one instance group holds
MaxInstances == 1
\* firewall rules and zones of a project
MaxRules == 2
MaxZones == 2
\* copies of one task in the queue
MaxCopies == 2

(***************************************************************************)
(* Program constants.                                                      *)
(***************************************************************************)
\* app.go:191  time.Now().Add(-1 * time.Hour)
GraceSeconds == 3600
\* app.go:227  time.Now().UTC().Add(15 * time.Minute)
ExpirySeconds == 900
\* app.go:191  the zero time.Time that time.Parse returns with an error
ZeroTime == 0
\* app.go:78, 144, 298  http.StatusNoContent
StatusNoContent == 204
\* app.go:85, 305  http.StatusOK
StatusOK == 200
\* app.go:69  http.StatusInternalServerError
StatusInternalServerError == 500
\* app.go:68  http.StatusNotFound
StatusNotFound == 404

\* the clock when the model starts: late enough for a proxy to have been
\* created a grace window earlier
StartTime == 2 * GraceSeconds

(***************************************************************************)
(* Go strings.                                                             *)
(***************************************************************************)
\* s[lo:hi] of Go (0-based, hi exclusive)
Slice(s, lo, hi) == SubSeq(s, lo + 1, hi)

\* strings.HasPrefix
HasPrefix(s, prefix) ==
    /\ Len(prefix) <= Len(s)
    /\ SubSeq(s, 1, Len(prefix)) = prefix

\* the 0-based places where sub occurs in s
Occurrences(s, sub) ==
    { i \in 0..(Len(s) - Len(sub)) : SubSeq(s, i + 1, i + Len(sub)) = sub }

\* strings.Index: the first place, -1 when there is none
Index(s, sub) ==
    LET occ == Occurrences(s, sub)
    IN IF occ = {} THEN -1 ELSE CHOOSE i \in occ : \A j \in occ : i <= j

\* strings.LastIndex: the last place, -1 when there is none
LastIndex(s, sub) ==
    LET occ == Occurrences(s, sub)
    IN IF occ = {} THEN -1 ELSE CHOOSE i \in occ : \A j \in occ : i >= j

\* strconv.FormatBool
FormatBool(b) == IF b THEN "true" ELSE "false"

\* strconv.ParseBool with its error dropped: false for whatever is not a true
ParseBool(s) == s \in {"1", "t", "T", "TRUE", "true", "True"}

(***************************************************************************)
(* Time stamps.                                                            *)
(***************************************************************************)
\* t.Format(time.RFC3339)
FormatRFC3339(t) == [valid |-> TRUE, sec |-> t]

\* a string time.Parse rejects, the "" of a missing parameter included
NoStamp == [valid |-> FALSE, sec |-> 0]

\* time.Parse(time.RFC3339, s): the time and whether it failed
ParseRFC3339(s) ==
    IF s.valid THEN [t |-> s.sec, err |-> FALSE]
    ELSE [t |-> ZeroTime, err |-> TRUE]

(***************************************************************************)
(* Self-link parsing (autolbclean.go).                                     *)
(***************************************************************************)
\* a variant that takes the scope from the first "/" of the string on
parseAroundFirst(s, pos) ==
    LET i == Index(Slice(s, 0, pos), <<"/">>)
        j == LastIndex(Slice(s, pos, Len(s)), <<"/">>)
    IN  IF i < 0
        THEN [name |-> <<>>, region |-> <<>>, err |-> TRUE]
        ELSE IF j < 0
        THEN [name |-> <<>>, region |-> Slice(s, i + 1, pos), err |-> TRUE]
        ELSE [name |-> Slice(s, pos + j + 1, Len(s)),
              region |-> Slice(s, i + 1, pos), err |-> FALSE]

\* the part the parsers share: with the keyword at pos, the scope is what
\* lies between the last "/" before pos and pos, the name what follows the
\* last "/" from pos on.  region is a named result: it stays set when the
\* name is not found.
parseAround(s, pos) ==
    LET i == LastIndex(Slice(s, 0, pos), <<"/">>)
        j == LastIndex(Slice(s, pos, Len(s)), <<"/">>)
    IN  IF i < 0
        THEN [name |-> <<>>, region |-> <<>>, err |-> TRUE]
        ELSE IF j < 0
        THEN [name |-> <<>>, region |-> Slice(s, i + 1, pos), err |-> TRUE]
        ELSE [name |-> Slice(s, pos + j + 1, Len(s)),
              region |-> Slice(s, i + 1, pos), err |-> FALSE]

parseURL(s, keyword) ==
    LET pos == Index(s, <<"/", keyword>>)
    IN  IF pos < 0
        THEN [name |-> <<>>, region |-> <<>>, err |-> TRUE]
        ELSE parseAround(s, pos)

ParseTargetProxy(s) ==
    LET h  == Index(s, <<"/", "targetHttpProxies">>)
        hs == Index(s, <<"/", "targetHttpsProxies">>)
    IN  IF h >= 0
        THEN [isHTTPs |-> FALSE] @@ parseAround(s, h)
        ELSE IF hs >= 0
        THEN [isHTTPs |-> TRUE] @@ parseAround(s, hs)
        ELSE [name |-> <<>>, region |-> <<>>, isHTTPs |-> FALSE, err |-> TRUE]

ParseUrlMap(s) ==
    LET pos == Index(s, <<"/", "urlMaps">>)
    IN  IF pos < 0
        THEN [name |-> <<>>, region |-> <<>>, err |-> TRUE]
        ELSE parseAround(s, pos)

ParseInstanceGroup(s) ==
    LET pos == Index(s, <<"/", "instanceGroups">>)
    IN  IF pos < 0
        THEN [name |-> <<>>, region |-> <<>>, err |-> TRUE]
        ELSE parseAround(s, pos)

ParseService(s) == parseURL(s, "backendServices")

ParseSslCertificates(s) == parseURL(s, "sslCertificates")

ParseBackendServices(s) == parseURL(s, "backendServices")

ParseHealthChecks(s) == parseURL(s, "healthChecks")

\* the parsers, and what one of them returns for a string
Parsers ==
    {"ParseTargetProxy", "ParseUrlMap", "ParseInstanceGroup", "ParseService",
     "ParseSslCertificates", "ParseBackendServices", "ParseHealthChecks"}

Parse(parser, s) ==
    [parser |-> parser] @@
    CASE parser = "ParseTargetProxy" -> ParseTargetProxy(s)
      [] parser = "ParseUrlMap" -> [isHTTPs |-> FALSE] @@ ParseUrlMap(s)
      [] parser = "ParseInstanceGroup" -> [isHTTPs |-> FALSE] @@ ParseInstanceGroup(s)
      [] parser = "ParseService" -> [isHTTPs |-> FALSE] @@ ParseService(s)
      [] parser = "ParseSslCertificates" -> [isHTTPs |-> FALSE] @@ ParseSslCertificates(s)
      [] parser = "ParseBackendServices" -> [isHTTPs |-> FALSE] @@ ParseBackendServices(s)
      [] parser = "ParseHealthChecks" -> [isHTTPs |-> FALSE] @@ ParseHealthChecks(s)

\* no parser was applied
NotParsed ==
    [parser |-> "none", name |-> <<>>, region |-> <<>>, isHTTPs |-> FALSE, err |-> FALSE]

(***************************************************************************)
(* The project's resources, as the compute API reports them.               *)
(***************************************************************************)
FwName == <<"k8s-fw", "-a">>
HttpProxyName == <<"k8s-tp", "-a">>
HttpsProxyName == <<"k8s-tp", "s-a">>
UmName == <<"k8s-um", "-a">>
Be1 == <<"k8s-be", "-1">>
Be2 == <<"k8s-be", "-2">>
Hc1 == <<"k8s-hc", "-1">>
Hc2 == <<"k8s-hc", "-2">>
CertName == <<"k8s-ssl", "-a">>
Ig1 == <<"k8s-ig", "-1">>
Ig2 == <<"k8s-ig", "-2">>
Global == <<"global">>
ZoneA == <<"zones", "/", "zone-a">>

ProjectURL ==
    <<"https:", "/", "/", "www.googleapis.com", "/", "compute", "/", "v1",
      "/", "projects", "/", "p">>

\* the selfLink of a resource: .../<scope>/<collection>/<name>
SelfLink(scope, collection, name) ==
    ProjectURL \o <<"/">> \o scope \o <<"/", collection, "/">> \o name

ProxyLink(https, name) ==
    SelfLink(Global, IF https THEN "targetHttpsProxies" ELSE "targetHttpProxies", name)

\* compute.BackendService
BackendService(name, groups, checks) ==
    [name |-> name,
     selfLink |-> SelfLink(Global, "backendServices", name),
     backends |-> [i \in DOMAIN groups |-> SelfLink(ZoneA, "instanceGroups", groups[i])],
     healthChecks |-> [i \in DOMAIN checks |-> SelfLink(Global, "healthChecks", checks[i])]]

\* compute.UrlMap: a default service, and path matchers with a default
\* service and path rules each
UrlMap(name, default, rules) ==
    [name |-> name,
     defaultService |-> SelfLink(Global, "backendServices", default),
     pathMatchers |->
        IF rules = <<>> THEN <<>>
        ELSE << [defaultService |-> SelfLink(Global, "backendServices", default),
                 pathRules |-> [i \in DOMAIN rules |->
                     [service |-> SelfLink(Global, "backendServices", rules[i])]]] >>]

\* compute.TargetHttpProxy, compute.TargetHttpsProxy
TargetProxy(name, stamp, certs) ==
    [name |-> name,
     urlMap |-> SelfLink(Global, "urlMaps", UmName),
     sslCertificates |-> [i \in DOMAIN certs |-> SelfLink(Global, "sslCertificates", certs[i])],
     creationTimestamp |-> stamp]

\* compute.ForwardingRule
ForwardingRule(name, region, target) ==
    [name |-> name, region |-> region, target |-> target]

\* the creation stamps a proxy is given: exactly one grace window before the
\* start, a quarter of an hour less, and a string that is no RFC3339 stamp
CreationStamps ==
    { FormatRFC3339(StartTime - GraceSeconds),
      FormatRFC3339(StartTime - GraceSeconds + ExpirySeconds),
      NoStamp }

\* the path rules of the url map: which backend services they name
PathRuleChoices == { <<>>, <<Be2>>, <<Be1, Be2>>, <<Be2, Be2>> }

\* one load balancer of a GKE ingress: a forwarding rule (or none, when the
\* provisioning stopped half way), an HTTP or HTTPS proxy, its url map with
\* backend service Be1 as the default and the path rules given, two backend
\* services over two instance groups of n1 and n2 instances
Cloud(withFw, https, stamp, rules, n1, n2) ==
    [forwardingRules |->
        IF withFw
        THEN { ForwardingRule(FwName, Global,
                   ProxyLink(https, IF https THEN HttpsProxyName ELSE HttpProxyName)) }
        ELSE {},
     targetHttpProxies |->
        IF https THEN {} ELSE { TargetProxy(HttpProxyName, stamp, <<>>) },
     targetHttpsProxies |->
        IF https THEN { TargetProxy(HttpsProxyName, stamp, <<CertName>>) } ELSE {},
     urlMaps |-> { UrlMap(UmName, Be1, rules) },
     backendServices |->
        { BackendService(Be1, <<Ig1, Ig2>>, <<Hc1>>),
          BackendService(Be2, <<Ig2>>, <<Hc2>>) },
     healthChecks |-> { Hc1, Hc2 },
     sslCertificates |-> IF https THEN { CertName } ELSE {},
     instanceGroups |->
        { [zone |-> <<"zone-a">>, name |-> Ig1, instances |-> n1],
          [zone |-> <<"zone-a">>, name |-> Ig2, instances |-> n2] }]

\* a second url map name: no url map of the project bears it
GoneUmName == <<"k8s-um", "-b">>

\* the project c and an old HTTPS proxy no forwarding rule targets, as a
\* forwarding rule deleted by hand leaves it; its url map is the one of c,
\* or one that is gone
WithOrphan(c, dangling) ==
    [c EXCEPT
        !.targetHttpsProxies =
            { [TargetProxy(HttpsProxyName, FormatRFC3339(StartTime - GraceSeconds),
                           <<CertName>>)
                  EXCEPT !.urlMap = SelfLink(Global, "urlMaps",
                                             IF dangling THEN GoneUmName ELSE UmName)] },
        !.sslCertificates = { CertName }]

\* projects with one load balancer
OneProxyClouds ==
    { Cloud(withFw, https, stamp, rules, n1, n2) :
        withFw \in BOOLEAN, https \in BOOLEAN, stamp \in CreationStamps,
        rules \in PathRuleChoices,
        n1 \in 0..MaxInstances, n2 \in 0..MaxInstances }

\* projects with an HTTP proxy, with or without its forwarding rule, and an
\* HTTPS proxy without one
TwoProxyClouds ==
    { WithOrphan(Cloud(withFw, FALSE, FormatRFC3339(StartTime - GraceSeconds), <<Be2>>,
                       n1, n2), dangling) :
        withFw \in BOOLEAN, dangling \in BOOLEAN,
        n1 \in 0..MaxInstances, n2 \in 0..MaxInstances }

\* resources the ingress controller did not make
OtherFwName == <<"web-fw">>
OtherProxyName == <<"web-tp">>
PoolFwName == <<"k8s-fw", "-pool">>
RegionName == <<"region-a">>
RegionA == <<"regions", "/">> \o RegionName

\* the project with one more resource: a forwarding rule without the k8s-fw
\* prefix for the HTTP proxy, a k8s-fw... forwarding rule for a target pool,
\* or a proxy without the k8s-tp prefix; or with a forwarding rule of a
\* region (one with a regional address) for the HTTP proxy
WithForeign(c, kind) ==
    CASE kind = "rule" ->
            [c EXCEPT !.forwardingRules =
                @ \cup { ForwardingRule(OtherFwName, Global, ProxyLink(FALSE, HttpProxyName)) }]
      [] kind = "pool" ->
            [c EXCEPT !.forwardingRules =
                @ \cup { ForwardingRule(PoolFwName, RegionName,
                                        SelfLink(RegionA, "targetPools", <<"pool">>)) }]
      [] kind = "proxy" ->
            [c EXCEPT !.targetHttpProxies =
                @ \cup { TargetProxy(OtherProxyName, FormatRFC3339(StartTime - GraceSeconds),
                                     <<>>) }]
      [] kind = "regional" ->
            [c EXCEPT !.forwardingRules =
                { ForwardingRule(FwName, RegionName, ProxyLink(FALSE, HttpProxyName)) }]

\* projects with a load balancer and a resource of another origin
ForeignClouds ==
    { WithForeign(Cloud(withFw, FALSE, FormatRFC3339(StartTime - GraceSeconds), <<Be2>>,
                        n1, n2), kind) :
        withFw \in BOOLEAN, kind \in {"rule", "pool", "proxy", "regional"},
        n1 \in 0..MaxInstances, n2 \in 0..MaxInstances }

\* the projects the checks are run on
Clouds == OneProxyClouds \cup TwoProxyClouds \cup ForeignClouds

\* the projects the plans are carried out on: an old load balancer whose
\* path rule names Be2, and no instance anywhere
DeadClouds ==
    { Cloud(withFw, https, FormatRFC3339(StartTime - GraceSeconds), <<Be2>>, 0, 0) :
        withFw \in BOOLEAN, https \in BOOLEAN }

\* instance tags: two made by GKE for its node pools, one made by hand
GkeA == <<"gke-", "a">>
GkeB == <<"gke-", "b">>
Web == <<"web">>

\* compute.Firewall: a name and its TargetTags
Firewall(i, tags) == [name |-> <<"fw-", i>>, targetTags |-> tags]

\* the TargetTags a firewall rule can have
TagChoices == { <<GkeA>>, <<GkeB>>, <<GkeA, GkeB>>, <<GkeA, Web>>, <<Web>> }

\* the instances a zone can have (each one is its Tags.Items): none, a GKE
\* node, an instance with a tag of either kind
InstanceChoices == { <<>>, << <<GkeA>> >>, << <<Web, GkeB>> >> }

\* compute.Zone, with what Instances.List returns for it
Zone(k, instances) == [name |-> <<"zone-", k>>, instances |-> instances]

\* projects with firewall rules and instances: the rules in the order
\* Firewalls.List returns them, the zones in the order of Zones.List
FirewallClouds ==
    UNION { { Cloud(FALSE, FALSE, FormatRFC3339(StartTime - GraceSeconds), <<>>, 0, 0)
              @@ [firewalls |-> [i \in 1..n |-> Firewall(i, tags[i])],
                  zones |-> [k \in 1..MaxZones |-> Zone(k, instances[k])]] :
                tags \in [1..n -> TagChoices],
                instances \in [1..MaxZones -> InstanceChoices] } : n \in 1..MaxRules }

(***************************************************************************)
(* The compute API (an outside service): what a call returns for a given   *)
(* state of the project.  An error is [googleapi, code]: googleapi says    *)
(* whether it is a *googleapi.Error, code is its HTTP status.              *)
(***************************************************************************)
NotFoundError == [googleapi |-> TRUE, code |-> StatusNotFound]
\* resourceInUseByAnotherResource
InUseError == [googleapi |-> TRUE, code |-> 400]
\* the backend is not available for a while
UnavailableError == [googleapi |-> TRUE, code |-> 503]
\* the request never got an answer: no *googleapi.Error
TransportError == [googleapi |-> FALSE, code |-> 0]

\* <collection>.Get(project, name).Do()
ApiGet(items, name, fails) ==
    LET hit == { x \in items : x.name = name }
    IN  IF fails THEN [ok |-> FALSE, err |-> UnavailableError, items |-> {}]
        ELSE IF hit = {} THEN [ok |-> FALSE, err |-> NotFoundError, items |-> {}]
        ELSE [ok |-> TRUE, err |-> NotFoundError, items |-> hit]

\* InstanceGroups.ListInstances(project, zone, name, ALL).Do(): the instances
\* of the group, in any state
ApiListInstances(c, zone, name, fails) ==
    LET hit == { g \in c.instanceGroups : g.zone = zone /\ g.name = name }
    IN  IF fails THEN [ok |-> FALSE, items |-> <<>>]
        ELSE IF hit = {} THEN [ok |-> FALSE, items |-> <<>>]
        ELSE LET g == CHOOSE x \in hit : TRUE
             IN [ok |-> TRUE,
                 items |-> [k \in 1..g.instances |-> <<g.name, k>>]]

(***************************************************************************)
(* Tasks of the push queue: an endpoint and its form values.  A value that *)
(* was not given reads as the empty string (r.FormValue).                  *)
(***************************************************************************)
NewPOSTTask(path, name, region, https, expires) ==
    [path |-> path, name |-> name, region |-> region, https |-> https,
     expires |-> expires, forwarding_rule |-> <<>>, tp_name |-> <<>>]

\* the task httpForwardingRulesCheck adds for one forwarding rule
CheckTask(fwname, tpname, region, isHTTPs) ==
    [path |-> "/job/target-pools/check", name |-> <<>>, region |-> region,
     https |-> FormatBool(isHTTPs), expires |-> NoStamp,
     forwarding_rule |-> fwname, tp_name |-> tpname]

(***************************************************************************)
(* The resolver (autolbclean.go).                                          *)
(***************************************************************************)
RECURSIVE Flatten(_)
\* the sequences of a sequence, one after the other
Flatten(ss) == IF ss = <<>> THEN <<>> ELSE Head(ss) \o Flatten(Tail(ss))

\* the path rules FindBackendServices walks: those of every path matcher,
\* in order
PathRules(um) ==
    Flatten([i \in DOMAIN um.pathMatchers |-> um.pathMatchers[i].pathRules])

RECURSIVE findBackendServicesLoop(_, _, _, _)
findBackendServicesLoop(c, rules, fails, list) ==
    IF rules = <<>> THEN [err |-> FALSE, list |-> list]
    ELSE LET parsed == ParseService(Head(rules).service)
             got    == ApiGet(c.backendServices, parsed.name, fails)
         IN  IF parsed.err THEN [err |-> TRUE, list |-> <<>>]
             ELSE IF ~got.ok THEN [err |-> TRUE, list |-> <<>>]
             ELSE findBackendServicesLoop(c, Tail(rules), fails,
                      Append(list, CHOOSE x \in got.items : TRUE))

\* FindBackendServices: the backend service of every path rule of every path
\* matcher; the first link that does not parse or resolve ends it
FindBackendServices(c, um, fails) ==
    findBackendServicesLoop(c, PathRules(um), fails, <<>>)

RECURSIVE listInstancesLoop(_, _, _, _)
listInstancesLoop(c, backends, failing, list) ==
    IF backends = <<>> THEN [err |-> FALSE, list |-> list]
    ELSE LET parsed == ParseInstanceGroup(Head(backends))
             got    == ApiListInstances(c, parsed.region, parsed.name,
                                        parsed.name \in failing)
         IN  IF parsed.err THEN [err |-> TRUE, list |-> <<>>]
             ELSE listInstancesLoop(c, Tail(backends), failing,
                      IF got.ok THEN list \o got.items ELSE list)

\* a variant in which a lookup that fails is an error of the whole call
ListInstancesForServiceOrError(c, service, failing) ==
    IF \E i \in DOMAIN service.backends :
           ~ParseInstanceGroup(service.backends[i]).err
           /\ ParseInstanceGroup(service.backends[i]).name \in failing
    THEN [err |-> TRUE, list |-> <<>>]
    ELSE listInstancesLoop(c, service.backends, failing, <<>>)

\* ListInstancesForService: the instances of every instance group of the
\* service; a lookup that fails is skipped
ListInstancesForService(c, service, failing) ==
    listInstancesLoop(c, service.backends, failing, <<>>)

(***************************************************************************)
(* checkAndDeleteTargetProxiesIfApplicable (app.go).                       *)
(***************************************************************************)
\* a variant that takes a stamp that does not parse for a fresh one
IsYoungUnparsed(stamp, t) ==
    LET created == ParseRFC3339(stamp)
    IN  created.err \/ created.t > t - GraceSeconds

\* a variant that compares the wrong way round
IsYoungBefore(stamp, t) == ParseRFC3339(stamp).t < t - GraceSeconds

\* app.go:191  the proxy was created less than an hour ago
IsYoung(stamp, t) == ParseRFC3339(stamp).t > t - GraceSeconds

\* a variant that counts the instances of the last service only
TotalInstancesOfLast(c, services, failing, total) ==
    IF services = <<>> THEN [err |-> FALSE, total |-> total]
    ELSE LET got == ListInstancesForService(c, services[Len(services)], failing)
         IN  [err |-> got.err, total |-> total + Len(got.list)]

RECURSIVE TotalInstances(_, _, _, _)
\* app.go:212-219  the instances of every service, added up
TotalInstances(c, services, failing, total) ==
    IF services = <<>> THEN [err |-> FALSE, total |-> total]
    ELSE LET got == ListInstancesForService(c, Head(services), failing)
         IN  IF got.err THEN [err |-> TRUE, total |-> total]
             ELSE TotalInstances(c, Tail(services), failing, total + Len(got.list))

\* a variant that gives a plan the grace window as its life time
ExpiresAfterGrace(t) == FormatRFC3339(t + GraceSeconds)

\* app.go:227  the stamp every task of a plan carries
Expires(t) == FormatRFC3339(t + ExpirySeconds)

RECURSIVE CertificateTasks(_, _)
\* app.go:238-249  one task per certificate link that parses
CertificateTasks(certificates, expires) ==
    IF certificates = <<>> THEN <<>>
    ELSE LET parsed == ParseSslCertificates(Head(certificates))
             rest   == CertificateTasks(Tail(certificates), expires)
         IN  IF parsed.err THEN rest
             ELSE <<NewPOSTTask("/job/ssl-certificates/delete", parsed.name, <<>>, "", expires)>>
                  \o rest

\* app.go:261-267  one task per health check of a service
HealthCheckTasks(service, expires) ==
    [i \in DOMAIN service.healthChecks |->
        NewPOSTTask("/job/health-checks/delete",
                    ParseHealthChecks(service.healthChecks[i]).name, <<>>, "", expires)]

RECURSIVE BackendServiceTasks(_, _)
\* app.go:253-268  per service: its task, then those of its health checks
BackendServiceTasks(services, expires) ==
    IF services = <<>> THEN <<>>
    ELSE <<NewPOSTTask("/job/backend-services/delete", Head(services).name,
                       ParseBackendServices(Head(services).selfLink).region, "", expires)>>
         \o HealthCheckTasks(Head(services), expires)
         \o BackendServiceTasks(Tail(services), expires)

\* a variant that adds the url-map task before those of the services
PlanTasksUrlMapEarly(tpName, isHTTPs, certificates, services, umname, fwname, region, expires) ==
    <<NewPOSTTask("/job/target-http-proxies/delete", tpName, <<>>, FormatBool(isHTTPs), expires)>>
    \o (IF isHTTPs THEN CertificateTasks(certificates, expires) ELSE <<>>)
    \o <<NewPOSTTask("/job/url-maps/delete", umname, <<>>, "", expires)>>
    \o BackendServiceTasks(services, expires)
    \o (IF Len(fwname) > 0
        THEN <<NewPOSTTask("/job/forwarding-rules/delete", fwname, region, "", expires)>>
        ELSE <<>>)

\* app.go:229-282  the tasks of one plan, in the order they are added
PlanTasks(tpName, isHTTPs, certificates, services, umname, fwname, region, expires) ==
    <<NewPOSTTask("/job/target-http-proxies/delete", tpName, <<>>, FormatBool(isHTTPs), expires)>>
    \o (IF isHTTPs THEN CertificateTasks(certificates, expires) ELSE <<>>)
    \o BackendServiceTasks(services, expires)
    \o <<NewPOSTTask("/job/url-maps/delete", umname, <<>>, "", expires)>>
    \o (IF Len(fwname) > 0
        THEN <<NewPOSTTask("/job/forwarding-rules/delete", fwname, region, "", expires)>>
        ELSE <<>>)

\* taskqueue.Add, called task by task with its error ignored: the tasks the
\* queue took.  failing: the paths whose Add calls fail
taskqueueAdd(tasks, failing) ==
    LET Taken(task) == task.path \notin failing
    IN  SelectSeq(tasks, Taken)

\* what one evaluation of a candidate did: its arguments, how far it got,
\* the services it collected, the tasks it built and those the queue took
Evaluation(fwname, region, tpname, isHTTPs, t, outcome, stamp, services, total, tasks, added) ==
    [fwname |-> fwname, region |-> region, tpname |-> tpname, isHTTPs |-> isHTTPs,
     time |-> t, outcome |-> outcome, stamp |-> stamp, services |-> services,
     total |-> total, tasks |-> tasks, added |-> added]

\* app.go:229-286  the tasks are built, then added one by one
Planned(fwname, region, tpname, isHTTPs, t, stamp, services, total, tasks, failing) ==
    Evaluation(fwname, region, tpname, isHTTPs, t, "dead", stamp, services, total, tasks,
               taskqueueAdd(tasks, failing))

\* fault: the call the API fails ("none", "proxy", "urlmap", "service") and
\* the candidates it fails it for, the instance groups whose listing fails,
\* and the paths whose taskqueue.Add fails
checkAndDeleteTargetProxiesIfApplicable(c, t, fwname, region, tpname, isHTTPs, fault) ==
    LET Fails(call) == fault.api = call /\ tpname \in fault.candidates
        Stop(outcome, stamp, services, total) ==
            Evaluation(fwname, region, tpname, isHTTPs, t, outcome, stamp, services, total,
                       <<>>, <<>>)
        tp == ApiGet(IF isHTTPs THEN c.targetHttpsProxies ELSE c.targetHttpProxies,
                     tpname, Fails("proxy"))
    IN  IF ~tp.ok THEN Stop("failed to get target proxy", NoStamp, <<>>, 0)
        ELSE
        LET proxy == CHOOSE x \in tp.items : TRUE
            certificates == IF isHTTPs THEN proxy.sslCertificates ELSE <<>>
            timestamp == proxy.creationTimestamp
            parsed == ParseUrlMap(proxy.urlMap)
            um == ApiGet(c.urlMaps, parsed.name, Fails("urlmap"))
        IN  IF IsYoung(timestamp, t) THEN Stop("young", timestamp, <<>>, 0)
            ELSE IF parsed.err THEN Stop("failed to parse url map selflink", timestamp, <<>>, 0)
            ELSE IF ~um.ok THEN Stop("failed to get url map", timestamp, <<>>, 0)
            ELSE
            LET found == FindBackendServices(c, CHOOSE x \in um.items : TRUE,
                                             Fails("service"))
                counted == TotalInstances(c, found.list, fault.lookups, 0)
            IN  IF found.err
                THEN Stop("failed to find backend services", timestamp, <<>>, 0)
                ELSE IF counted.err
                THEN Stop("failed to list instances for service", timestamp, found.list, 0)
                ELSE IF counted.total > 0
                THEN Stop("alive", timestamp, found.list, counted.total)
                ELSE Planned(fwname, region, tpname, isHTTPs, t, timestamp,
                             found.list, counted.total,
                             PlanTasks(proxy.name, isHTTPs, certificates, found.list,
                                       parsed.name, fwname, region, Expires(t)),
                             fault.add)

(***************************************************************************)
(* The delete calls of the compute API.  A call is [api, region, name].    *)
(* The API refuses to delete a resource that another one still refers to.  *)
(***************************************************************************)
Call(api, region, name) == [api |-> api, region |-> region, name |-> name]

\* the backend service links a url map holds
ServiceLinks(um) ==
    {um.defaultService}
    \cup { um.pathMatchers[i].defaultService : i \in DOMAIN um.pathMatchers }
    \cup { PathRules(um)[i].service : i \in DOMAIN PathRules(um) }

Range(f) == { f[i] : i \in DOMAIN f }

\* the resources of collection items that call names
Named(items, call) == { x \in items : x.name = call.name }

\* whether some resource of the project still refers to the one call names
InUse(c, call) ==
    CASE call.api = "TargetHttpProxies.Delete" ->
            \E fw \in c.forwardingRules : fw.target = ProxyLink(FALSE, call.name)
      [] call.api = "TargetHttpsProxies.Delete" ->
            \E fw \in c.forwardingRules : fw.target = ProxyLink(TRUE, call.name)
      [] call.api = "UrlMaps.Delete" ->
            \E tp \in c.targetHttpProxies \cup c.targetHttpsProxies :
                tp.urlMap = SelfLink(Global, "urlMaps", call.name)
      [] call.api = "BackendServices.Delete" ->
            \E um \in c.urlMaps :
                SelfLink(Global, "backendServices", call.name) \in ServiceLinks(um)
      [] call.api = "HealthChecks.Delete" ->
            \E bs \in c.backendServices :
                SelfLink(Global, "healthChecks", call.name) \in Range(bs.healthChecks)
      [] call.api = "SslCertificates.Delete" ->
            \E tp \in c.targetHttpsProxies :
                SelfLink(Global, "sslCertificates", call.name) \in Range(tp.sslCertificates)
      [] OTHER -> FALSE

\* whether the resource call names exists
Exists(c, call) ==
    CASE call.api = "GlobalForwardingRules.Delete" ->
            \E fw \in c.forwardingRules : fw.name = call.name /\ fw.region = Global
      [] call.api = "ForwardingRules.Delete" ->
            \E fw \in c.forwardingRules :
                fw.name = call.name /\ fw.region = call.region /\ fw.region # Global
      [] call.api = "TargetHttpProxies.Delete" -> Named(c.targetHttpProxies, call) # {}
      [] call.api = "TargetHttpsProxies.Delete" -> Named(c.targetHttpsProxies, call) # {}
      [] call.api = "UrlMaps.Delete" -> Named(c.urlMaps, call) # {}
      [] call.api = "BackendServices.Delete" -> Named(c.backendServices, call) # {}
      [] call.api = "HealthChecks.Delete" -> call.name \in c.healthChecks
      [] call.api = "SslCertificates.Delete" -> call.name \in c.sslCertificates
      [] call.api = "Firewalls.Delete" ->
            \E i \in DOMAIN c.firewalls : c.firewalls[i].name = call.name
      \* the project has no regional backend service
      [] OTHER -> FALSE

\* the project without the resource call names
Without(c, call) ==
    CASE call.api \in {"GlobalForwardingRules.Delete", "ForwardingRules.Delete"} ->
            [c EXCEPT !.forwardingRules = @ \ Named(@, call)]
      [] call.api = "TargetHttpProxies.Delete" ->
            [c EXCEPT !.targetHttpProxies = @ \ Named(@, call)]
      [] call.api = "TargetHttpsProxies.Delete" ->
            [c EXCEPT !.targetHttpsProxies = @ \ Named(@, call)]
      [] call.api = "UrlMaps.Delete" -> [c EXCEPT !.urlMaps = @ \ Named(@, call)]
      [] call.api = "BackendServices.Delete" ->
            [c EXCEPT !.backendServices = @ \ Named(@, call)]
      [] call.api = "HealthChecks.Delete" -> [c EXCEPT !.healthChecks = @ \ {call.name}]
      [] call.api = "SslCertificates.Delete" ->
            [c EXCEPT !.sslCertificates = @ \ {call.name}]
      [] call.api = "Firewalls.Delete" ->
            LET Other(fw) == fw.name # call.name
            IN  [c EXCEPT !.firewalls = SelectSeq(@, Other)]
      [] OTHER -> c

\* <collection>.Delete(project, [region,] name).Do(): the error, or the
\* project without the resource.  fails: "none", or the failure of the call
\* itself ("unavailable", "transport")
ApiDelete(c, call, fails) ==
    IF fails = "unavailable" THEN [ok |-> FALSE, err |-> UnavailableError, cloud |-> c]
    ELSE IF fails = "transport" THEN [ok |-> FALSE, err |-> TransportError, cloud |-> c]
    ELSE IF ~Exists(c, call) THEN [ok |-> FALSE, err |-> NotFoundError, cloud |-> c]
    ELSE IF InUse(c, call) THEN [ok |-> FALSE, err |-> InUseError, cloud |-> c]
    ELSE [ok |-> TRUE, err |-> NotFoundError, cloud |-> Without(c, call)]

(***************************************************************************)
(* The delete handlers (app.go).  A handler answers with an HTTP status;   *)
(* calls are the delete calls it made, results what the API returned for   *)
(* them, cloud the project afterwards.                                     *)
(***************************************************************************)
Response(status, calls, results, c) ==
    [status |-> status, calls |-> calls, results |-> results, cloud |-> c]

\* a variant that takes a stamp that does not parse for one that has not
\* passed
isExpiredParsed(r, t) ==
    LET expires == ParseRFC3339(r.expires)
    IN  ~expires.err /\ t > expires.t

\* a variant for which no stamp that parses ever lies in the past
isExpiredNever(r, t) == ParseRFC3339(r.expires).err /\ t >= ZeroTime

\* a variant that never looks at the clock
isExpiredUnparsable(r, t) == ParseRFC3339(r.expires).err

\* isExpired: the task's stamp does not parse, or lies in the past
isExpired(r, t) ==
    LET expires == ParseRFC3339(r.expires)
    IN  expires.err \/ t > expires.t

\* a variant that answers 500 for every error
handleJobErrorAlways(e) == StatusInternalServerError

\* handleJobError: the status answered for the error of a delete call
handleJobError(e) ==
    IF ~e.googleapi \/ e.code # StatusNotFound
    THEN StatusInternalServerError
    ELSE StatusNoContent

\* a variant that does not look at the stamp of the task
deleteAnswerLate(r, t, c, fault, call) ==
    IF fault.app THEN Response(StatusOK, <<>>, <<>>, c)
    ELSE LET res == ApiDelete(c, call, fault.api)
             result == [ok |-> res.ok, err |-> res.err]
         IN  IF ~res.ok THEN Response(handleJobError(res.err), <<call>>, <<result>>, c)
             ELSE Response(StatusNoContent, <<call>>, <<result>>, res.cloud)

\* a variant that answers 500 whenever the delete call fails
deleteAnswerStrict(r, t, c, fault, call) ==
    IF isExpired(r, t) THEN Response(StatusNoContent, <<>>, <<>>, c)
    ELSE IF fault.app THEN Response(StatusOK, <<>>, <<>>, c)
    ELSE LET res == ApiDelete(c, call, fault.api)
             result == [ok |-> res.ok, err |-> res.err]
         IN  IF ~res.ok THEN Response(StatusInternalServerError, <<call>>, <<result>>, c)
             ELSE Response(StatusNoContent, <<call>>, <<result>>, res.cloud)

\* the shape the delete handlers share: nothing for an expired task, 200
\* when the app cannot be built, else the one delete call and its answer
deleteAnswer(r, t, c, fault, call) ==
    IF isExpired(r, t) THEN Response(StatusNoContent, <<>>, <<>>, c)
    ELSE IF fault.app THEN Response(StatusOK, <<>>, <<>>, c)
    ELSE LET res == ApiDelete(c, call, fault.api)
             result == [ok |-> res.ok, err |-> res.err]
         IN  IF ~res.ok THEN Response(handleJobError(res.err), <<call>>, <<result>>, c)
             ELSE Response(StatusNoContent, <<call>>, <<result>>, res.cloud)

httpForwardingRulesDelete(r, t, c, fault) ==
    deleteAnswer(r, t, c, fault,
        IF r.region = <<"global">>
        THEN Call("GlobalForwardingRules.Delete", <<>>, r.name)
        ELSE Call("ForwardingRules.Delete", r.region, r.name))

httpUrlMapsDelete(r, t, c, fault) ==
    deleteAnswer(r, t, c, fault, Call("UrlMaps.Delete", <<>>, r.name))

httpBackendServicesDelete(r, t, c, fault) ==
    deleteAnswer(r, t, c, fault,
        IF r.region = <<"global">>
        THEN Call("BackendServices.Delete", <<>>, r.name)
        ELSE Call("RegionBackendServices.Delete", r.region, r.name))

httpSslCertificatesDelete(r, t, c, fault) ==
    deleteAnswer(r, t, c, fault, Call("SslCertificates.Delete", <<>>, r.name))

httpHealthChecksDelete(r, t, c, fault) ==
    deleteAnswer(r, t, c, fault, Call("HealthChecks.Delete", <<>>, r.name))

httpTargetProxiesDelete(r, t, c, fault) ==
    deleteAnswer(r, t, c, fault,
        IF ParseBool(r.https)
        THEN Call("TargetHttpsProxies.Delete", <<>>, r.name)
        ELSE Call("TargetHttpProxies.Delete", <<>>, r.name))

\* init: the handler http.HandleFunc registers for a path
Route(path) ==
    CASE path = "/job/forwarding-rules/check" -> "httpForwardingRulesCheck"
      [] path = "/job/firewall-rules/check" -> "httpFirewallsCheck"
      [] path = "/job/forwarding-rules/delete" -> "httpForwardingRulesDelete"
      [] path = "/job/url-maps/delete" -> "httpUrlMapsDelete"
      [] path = "/job/ssl-certificates/delete" -> "httpBackendServicesDelete"
      [] path = "/job/backend-services/delete" -> "httpBackendServicesDelete"
      [] path = "/job/target-pools/check" -> "httpTargetPoolCheck"
      [] path = "/job/target-pools/delete" -> "httpTargetPoolsDelete"
      [] path = "/job/target-http-proxies/delete" -> "httpTargetProxiesDelete"
      [] path = "/job/health-checks/delete" -> "httpHealthChecksDelete"
      [] OTHER -> "NotFound"

(***************************************************************************)
(* The check handlers (app.go).  A check answers with an HTTP status, the  *)
(* tasks it added to the queue (its check tasks, then those of its         *)
(* evaluations), and the evaluations it made.                              *)
(***************************************************************************)
\* the tasks the evaluations added, one evaluation after the other
AddedBy(evals) == Flatten([i \in DOMAIN evals |-> evals[i].added])

Checked(status, checks, evals) ==
    [status |-> status, added |-> checks \o AddedBy(evals), evals |-> evals]

RECURSIVE SeqOf(_)
\* the elements of a set, listed
SeqOf(S) ==
    IF S = {} THEN <<>>
    ELSE LET x == CHOOSE y \in S : TRUE IN <<x>> \o SeqOf(S \ {x})

\* a variant that returns every forwarding rule
ListEveryForwardingRule(c, fails) ==
    IF fails THEN [err |-> TRUE, list |-> {}]
    ELSE [err |-> FALSE, list |-> c.forwardingRules]

\* ListIngressForwardingRules: the forwarding rules named k8s-fw...
ListIngressForwardingRules(c, fails) ==
    IF fails THEN [err |-> TRUE, list |-> {}]
    ELSE [err |-> FALSE,
          list |-> { fr \in c.forwardingRules : HasPrefix(fr.name, <<"k8s-fw">>) }]

\* a variant that evaluates every k8s-tp... proxy, targeted or not
orphanEvaluationsOfAll(c, t, proxies, seen, isHTTPs, fault) ==
    LET orphans == SeqOf({ tp \in proxies : HasPrefix(tp.name, <<"k8s-tp">>) })
    IN  [i \in DOMAIN orphans |->
            checkAndDeleteTargetProxiesIfApplicable(c, t, <<>>, <<>>, orphans[i].name,
                                                    isHTTPs, fault)]

\* app.go:124-143  the k8s-tp... proxies that no forwarding rule of the pass
\* targets, each evaluated with no forwarding rule
orphanEvaluations(c, t, proxies, seen, isHTTPs, fault) ==
    LET orphans == SeqOf({ tp \in proxies :
                            HasPrefix(tp.name, <<"k8s-tp">>) /\ tp.name \notin seen })
    IN  [i \in DOMAIN orphans |->
            checkAndDeleteTargetProxiesIfApplicable(c, t, <<>>, <<>>, orphans[i].name,
                                                    isHTTPs, fault)]

\* a variant in which the first evaluation that fails ends the pass
passEvaluationsUntilError(c, t, seenHttpProxies, seenHttpsProxies, fault) ==
    LET first == orphanEvaluations(c, t, c.targetHttpProxies, seenHttpProxies, FALSE, fault)
    IN  IF \E i \in DOMAIN first : first[i].outcome \notin {"young", "alive", "dead"}
        THEN first
        ELSE first \o orphanEvaluations(c, t, c.targetHttpsProxies, seenHttpsProxies,
                                        TRUE, fault)

\* app.go:124-143  the HTTP proxies, then the HTTPS ones; what an evaluation
\* returns is dropped
passEvaluations(c, t, seenHttpProxies, seenHttpsProxies, fault) ==
    orphanEvaluations(c, t, c.targetHttpProxies, seenHttpProxies, FALSE, fault)
    \o orphanEvaluations(c, t, c.targetHttpsProxies, seenHttpsProxies, TRUE, fault)

\* httpForwardingRulesCheck: a check task per forwarding rule whose target
\* parses, then the proxies no forwarding rule targets
httpForwardingRulesCheck(c, t, fault) ==
    LET fwrs == ListIngressForwardingRules(c, fault.api = "list")
        targets == { [fwr |-> fr, tp |-> ParseTargetProxy(fr.target)] : fr \in fwrs.list }
        parsed == { x \in targets : ~x.tp.err }
        seenHttpProxies == { x.tp.name : x \in { y \in parsed : ~y.tp.isHTTPs } }
        seenHttpsProxies == { x.tp.name : x \in { y \in parsed : y.tp.isHTTPs } }
        checks == SeqOf({ CheckTask(x.fwr.name, x.tp.name, x.tp.region, x.tp.isHTTPs)
                          : x \in parsed })
        evals == IF fault.api = "proxies" THEN <<>>
                 ELSE passEvaluations(c, t, seenHttpProxies, seenHttpsProxies, fault)
    IN  IF fault.app THEN Checked(StatusOK, <<>>, <<>>)
        ELSE IF fwrs.err THEN Checked(StatusOK, <<>>, <<>>)
        ELSE Checked(StatusNoContent, taskqueueAdd(checks, fault.add), evals)

\* httpTargetPoolCheck: the evaluation of the proxy of one forwarding rule
httpTargetPoolCheck(r, t, c, fault) ==
    IF fault.app THEN Checked(StatusOK, <<>>, <<>>)
    ELSE Checked(StatusNoContent, <<>>,
                 <<checkAndDeleteTargetProxiesIfApplicable(c, t, r.forwarding_rule, r.region,
                       r.tp_name, ParseBool(r.https), fault)>>)

(***************************************************************************)
(* The firewall pass: ListDanglingFirewalls and httpFirewallsCheck.        *)
(***************************************************************************)
\* what can go wrong in one firewall pass: the app is not built, a listing
\* fails (the rules, the zones, the instances of zone number zone), or the
\* delete call number at fails
NoFirewallFault == [app |-> FALSE, api |-> "none", zone |-> 0, at |-> 0]

FirewallFaults ==
    {NoFirewallFault, [NoFirewallFault EXCEPT !.app = TRUE]}
    \cup { [NoFirewallFault EXCEPT !.api = f] : f \in {"firewalls", "zones"} }
    \cup { [NoFirewallFault EXCEPT !.api = "instances", !.zone = k] : k \in 1..MaxZones }
    \cup { [NoFirewallFault EXCEPT !.api = f, !.at = k] :
             f \in {"unavailable", "transport"}, k \in 1..MaxRules }

\* the tags of a list that GKE made
GkeTags(tags) == { tags[j] : j \in { k \in DOMAIN tags : HasPrefix(tags[k], <<"gke-">>) } }

\* the orders in which Go can range over tags2fws
TagOrders == { <<GkeA, GkeB>>, <<GkeB, GkeA>> }

RECURSIVE tags2fws(_, _)
\* tags2fws[tag]: the rules with that target tag, in the order of the
\* listing, once for every time a rule has the tag
tags2fws(firewalls, tag) ==
    IF firewalls = <<>> THEN <<>>
    ELSE LET fw == Head(firewalls)
             times == Cardinality({ j \in DOMAIN fw.targetTags : fw.targetTags[j] = tag })
         IN  [k \in 1..times |-> fw] \o tags2fws(Tail(firewalls), tag)

RECURSIVE scanZones(_, _, _)
\* the loop over the zones: it ends when no tag is left, a listing of
\* instances that fails is an error, every gke- tag of an instance leaves
\* the map
scanZones(zones, keys, fault) ==
    IF zones = <<>> \/ keys = {} THEN [err |-> FALSE, keys |-> keys]
    ELSE IF fault.api = "instances" /\ Head(zones).name = <<"zone-", fault.zone>>
    THEN [err |-> TRUE, keys |-> {}]
    ELSE LET instances == Head(zones).instances
             seen == UNION { GkeTags(instances[i]) : i \in DOMAIN instances }
         IN  scanZones(Tail(zones), keys \ seen, fault)

RECURSIVE danglingOf(_, _, _)
\* the rules of the tags that are left, tag after tag
danglingOf(firewalls, keys, order) ==
    IF order = <<>> THEN <<>>
    ELSE (IF Head(order) \in keys THEN tags2fws(firewalls, Head(order)) ELSE <<>>)
         \o danglingOf(firewalls, keys, Tail(order))

\* a variant that files a rule under every tag it has, gke- or not
ListDanglingFirewallsOfAnyTag(c, order, fault) ==
    LET keys == UNION { Range(c.firewalls[i].targetTags) : i \in DOMAIN c.firewalls }
        scan == scanZones(c.zones, keys, fault)
    IN  IF fault.api \in {"firewalls", "zones"} \/ scan.err
        THEN [err |-> TRUE, error |-> TransportError, list |-> <<>>]
        ELSE [err |-> FALSE, error |-> TransportError,
              list |-> danglingOf(c.firewalls, scan.keys, order \o <<Web>>)]

\* ListDanglingFirewalls: the rules of every gke- tag that no instance of
\* any zone has.  Its errors are wrapped: none is a *googleapi.Error
ListDanglingFirewalls(c, order, fault) ==
    LET keys == UNION { GkeTags(c.firewalls[i].targetTags) : i \in DOMAIN c.firewalls }
        scan == scanZones(c.zones, keys, fault)
    IN  IF fault.api \in {"firewalls", "zones"} \/ scan.err
        THEN [err |-> TRUE, error |-> TransportError, list |-> <<>>]
        ELSE [err |-> FALSE, error |-> TransportError,
              list |-> danglingOf(c.firewalls, scan.keys, order)]

RECURSIVE deleteFirewallsOn(_, _, _, _, _)
\* a variant of the loop that goes on to the next rule after an error
deleteFirewallsOn(c, firewalls, fault, calls, results) ==
    IF firewalls = <<>> THEN Response(StatusNoContent, calls, results, c)
    ELSE LET call == Call("Firewalls.Delete", <<>>, Head(firewalls).name)
             res == ApiDelete(c, call, IF fault.at = Len(calls) + 1 THEN fault.api ELSE "none")
             result == [ok |-> res.ok, err |-> res.err]
         IN  deleteFirewallsOn(res.cloud, Tail(firewalls), fault,
                               Append(calls, call), Append(results, result))

RECURSIVE deleteFirewalls(_, _, _, _, _)
\* app.go:502-510  one delete call per listed rule, until one fails
deleteFirewalls(c, firewalls, fault, calls, results) ==
    IF firewalls = <<>> THEN Response(StatusNoContent, calls, results, c)
    ELSE LET call == Call("Firewalls.Delete", <<>>, Head(firewalls).name)
             res == ApiDelete(c, call, IF fault.at = Len(calls) + 1 THEN fault.api ELSE "none")
             result == [ok |-> res.ok, err |-> res.err]
         IN  IF ~res.ok
             THEN Response(handleJobError(res.err), Append(calls, call),
                           Append(results, result), c)
             ELSE deleteFirewalls(res.cloud, Tail(firewalls), fault,
                                  Append(calls, call), Append(results, result))

\* httpFirewallsCheck: 200 when the app cannot be built, the answer of
\* handleJobError when the listing fails, else the deletes
httpFirewallsCheck(c, order, fault) ==
    LET firewalls == ListDanglingFirewalls(c, order, fault)
    IN  IF fault.app THEN Response(StatusOK, <<>>, <<>>, c)
        ELSE IF firewalls.err THEN Response(handleJobError(firewalls.error), <<>>, <<>>, c)
        ELSE deleteFirewalls(c, firewalls.list, fault, <<>>, <<>>)

(***************************************************************************)
(* The state: the project, the clock, how often cron has asked for a pass, *)
(* the push queue, and the handler run whose answer the queue has not      *)
(* taken in yet.  run also holds what the properties need of the run: the  *)
(* delete calls it made, the evaluations it made and what the API was      *)
(* made to do.  plan holds the tasks of the latest plan.                   *)
(***************************************************************************)
VARIABLES cloud, now, ticks, passes, queue, run, plan, input, parsed

vars == <<cloud, now, ticks, passes, queue, run, plan, input, parsed>>

NoTask == NewPOSTTask("", <<>>, <<>>, "", NoStamp)

NoFault ==
    [app |-> FALSE, api |-> "none", candidates |-> {HttpProxyName, HttpsProxyName},
     lookups |-> {}, add |-> {}]

\* what can go wrong in one run of a check handler: the app is not built,
\* one kind of API call fails (for every candidate, or for the HTTP proxy
\* alone), the listings of some instance groups fail, or the queue turns
\* down the tasks of one path
CheckFaults ==
    {NoFault, [NoFault EXCEPT !.app = TRUE]}
    \cup { [NoFault EXCEPT !.api = f] : f \in {"list", "proxies", "proxy", "urlmap", "service"} }
    \cup { [NoFault EXCEPT !.api = f, !.candidates = {HttpProxyName}] :
             f \in {"proxy", "urlmap", "service"} }
    \cup { [NoFault EXCEPT !.lookups = l] : l \in (SUBSET {Ig1, Ig2}) \ {{}} }
    \cup { [NoFault EXCEPT !.add = {p}] :
             p \in {"/job/target-pools/check", "/job/url-maps/delete"} }

\* what can go wrong in one run of a delete handler
DeleteFaults ==
    {NoFault, [NoFault EXCEPT !.app = TRUE]}
    \cup { [NoFault EXCEPT !.api = f] : f \in {"unavailable", "transport"} }

Ran(op, task, fault, status, calls, results, evals) ==
    [op |-> op, task |-> task, fault |-> fault, status |-> status,
     calls |-> calls, results |-> results, evals |-> evals]

\* no handler is running
Idle == Ran("none", NoTask, NoFault, 0, <<>>, <<>>, <<>>)

RECURSIVE BagOfSeq(_)
BagOfSeq(s) == IF s = <<>> THEN EmptyBag ELSE SetToBag({Head(s)}) (+) BagOfSeq(Tail(s))

\* the queue stops delivering a task that was answered with a 2xx status
Success(status) == status >= 200 /\ status < 300

\* the tasks of the latest evaluation that made a plan
LatestPlan(evals, old) ==
    LET made == { i \in DOMAIN evals : evals[i].tasks # <<>> }
    IN  IF made = {} THEN old
        ELSE evals[CHOOSE i \in made : \A j \in made : i >= j].tasks

\* the collections the parsers know, and one they do not
Keywords ==
    {"targetHttpProxies", "targetHttpsProxies", "urlMaps", "backendServices",
     "instanceGroups", "sslCertificates", "healthChecks"}

OtherKeyword == "forwardingRules"

\* what a link is made of: what comes before the scope, the scope (its last
\* segment is the one before the keyword), the keyword and the name
LinkPrefixes == { ProjectURL, <<"projects", "/", "p">> }

LinkScopes == { Global, ZoneA, <<"regions", "/", "region-a">> }

LinkNames == { UmName, <<"x">> }

\* a string to parse, with how it was made.  shape: "selflink" for
\* <prefix>/<scope>/<keyword>/<name>, "noname" when it ends with the
\* keyword, "noscope" when it starts with the scope segment
Link(shape, prefix, scope, keyword, name) ==
    [shape |-> shape, keyword |-> keyword, scope |-> <<scope[Len(scope)]>>, name |-> name,
     text |-> CASE shape = "selflink" ->
                     prefix \o <<"/">> \o scope \o <<"/", keyword, "/">> \o name
                [] shape = "noname" -> prefix \o <<"/">> \o scope \o <<"/", keyword>>
                [] shape = "noscope" -> <<scope[Len(scope)], "/", keyword, "/">> \o name]

\* no string is being parsed
NoLink == Link("noscope", <<>>, <<"">>, "", <<>>)

Links ==
    { Link(shape, prefix, scope, keyword, name) :
        shape \in {"selflink", "noname", "noscope"}, prefix \in LinkPrefixes,
        scope \in LinkScopes, keyword \in Keywords \cup {OtherKeyword}, name \in LinkNames }

Start ==
    /\ now = StartTime
    /\ ticks = 0
    /\ passes = 0
    /\ queue = EmptyBag
    /\ run = Idle
    /\ plan = <<>>
    /\ input = NoLink
    /\ parsed = NotParsed

Init ==
    /\ cloud \in DeadClouds
    /\ Start

InitCheck ==
    /\ cloud \in Clouds
    /\ Start

\* time passes: a quarter of an hour, the life time of a plan
Tick ==
    /\ run.op = "none"
    /\ ticks < MaxTicks
    /\ ticks' = ticks + 1
    /\ now' = now + ExpirySeconds
    /\ UNCHANGED <<cloud, passes, queue, run, plan, input, parsed>>

\* cron requests /job/forwarding-rules/check
ForwardingRulesCheck ==
    /\ run.op = "none"
    /\ passes < MaxPasses
    /\ \E fault \in CheckFaults :
        \E res \in {httpForwardingRulesCheck(cloud, now, fault)} :
            /\ passes' = passes + 1
            /\ queue' = queue (+) BagOfSeq(res.added)
            /\ run' = Ran("httpForwardingRulesCheck", NoTask, fault, res.status, <<>>, <<>>,
                        res.evals)
            /\ plan' = LatestPlan(res.evals, plan)
            /\ UNCHANGED <<cloud, now, ticks, input, parsed>>

\* the queue delivers a check task
TargetPoolCheck ==
    /\ run.op = "none"
    /\ \E r \in { x \in BagToSet(queue) : Route(x.path) = "httpTargetPoolCheck" },
          fault \in CheckFaults :
        \E res \in {httpTargetPoolCheck(r, now, cloud, fault)} :
            /\ queue' = queue (+) BagOfSeq(res.added)
            /\ run' = Ran("httpTargetPoolCheck", r, fault, res.status, <<>>, <<>>, res.evals)
            /\ plan' = LatestPlan(res.evals, plan)
            /\ UNCHANGED <<cloud, now, ticks, passes, input, parsed>>

\* the queue delivers a delete task to the handler of its path
Deliver(r, fault, op, res) ==
    /\ run.op = "none"
    /\ Route(r.path) = op
    /\ cloud' = res.cloud
    /\ run' = Ran(op, r, fault, res.status, res.calls, res.results, <<>>)
    /\ UNCHANGED <<now, ticks, passes, queue, plan, input, parsed>>

ForwardingRulesDelete ==
    \E r \in BagToSet(queue), fault \in DeleteFaults :
        Deliver(r, fault, "httpForwardingRulesDelete",
                httpForwardingRulesDelete(r, now, cloud, fault))

UrlMapsDelete ==
    \E r \in BagToSet(queue), fault \in DeleteFaults :
        Deliver(r, fault, "httpUrlMapsDelete", httpUrlMapsDelete(r, now, cloud, fault))

BackendServicesDelete ==
    \E r \in BagToSet(queue), fault \in DeleteFaults :
        Deliver(r, fault, "httpBackendServicesDelete",
                httpBackendServicesDelete(r, now, cloud, fault))

HealthChecksDelete ==
    \E r \in BagToSet(queue), fault \in DeleteFaults :
        Deliver(r, fault, "httpHealthChecksDelete",
                httpHealthChecksDelete(r, now, cloud, fault))

TargetProxiesDelete ==
    \E r \in BagToSet(queue), fault \in DeleteFaults :
        Deliver(r, fault, "httpTargetProxiesDelete",
                httpTargetProxiesDelete(r, now, cloud, fault))

\* the delete calls another client of the API can make on the project
DeleteCalls(c) ==
    { Call("GlobalForwardingRules.Delete", <<>>, x.name) : x \in c.forwardingRules }
    \cup { Call("TargetHttpProxies.Delete", <<>>, x.name) : x \in c.targetHttpProxies }
    \cup { Call("TargetHttpsProxies.Delete", <<>>, x.name) : x \in c.targetHttpsProxies }
    \cup { Call("UrlMaps.Delete", <<>>, x.name) : x \in c.urlMaps }
    \cup { Call("BackendServices.Delete", <<>>, x.name) : x \in c.backendServices }
    \cup { Call("HealthChecks.Delete", <<>>, x) : x \in c.healthChecks }
    \cup { Call("SslCertificates.Delete", <<>>, x) : x \in c.sslCertificates }

\* someone else (the ingress controller, an operator) deletes a resource
DeletedElsewhere ==
    /\ run.op = "none"
    /\ \E call \in DeleteCalls(cloud) :
        \E res \in {ApiDelete(cloud, call, "none")} :
            /\ res.ok
            /\ cloud' = res.cloud
            /\ UNCHANGED <<now, ticks, passes, queue, run, plan, input, parsed>>

\* cron requests /job/firewall-rules/check
FirewallsCheck ==
    /\ run.op = "none"
    /\ passes < MaxPasses
    /\ \E fault \in FirewallFaults, order \in TagOrders :
        \E res \in {httpFirewallsCheck(cloud, order, fault)} :
            /\ passes' = passes + 1
            /\ cloud' = res.cloud
            /\ run' = Ran(Route("/job/firewall-rules/check"), NoTask, fault, res.status,
                        res.calls, res.results, <<>>)
            /\ UNCHANGED <<now, ticks, queue, plan, input, parsed>>

\* a task of the queue whose stamp has not passed
Unexpired(r) == r.expires.valid /\ now <= r.expires.sec

\* time passes, also while a handler runs, as long as the bound allows or
\* some task has not expired
Advance ==
    /\ ticks < MaxTicks \/ \E r \in BagToSet(queue) : Unexpired(r)
    /\ ticks' = ticks + 1
    /\ now' = now + ExpirySeconds
    /\ UNCHANGED <<cloud, passes, queue, run, plan, input, parsed>>

\* a plan was made and some task of it has not expired
PlanInForce == \E i \in DOMAIN plan : Unexpired(plan[i])

\* an instance group gets an instance while a plan is in force
InstancesAppear ==
    /\ run.op = "none"
    /\ PlanInForce
    /\ \E g \in cloud.instanceGroups :
        /\ g.instances < MaxInstances
        /\ cloud' = [cloud EXCEPT !.instanceGroups =
                        (@ \ {g}) \cup {[g EXCEPT !.instances = @ + 1]}]
    /\ UNCHANGED <<now, ticks, passes, queue, run, plan, input, parsed>>

\* the load balancer every dead project has behind its proxy
Backing == Cloud(FALSE, FALSE, FormatRFC3339(StartTime - GraceSeconds), <<Be2>>, 0, 0)

\* the ingress controller makes a url map, backend service or health check
\* again, under its old name, once the plan has expired
Recreated ==
    /\ run.op = "none"
    /\ plan # <<>>
    /\ ~PlanInForce
    /\ \/ \E x \in Backing.urlMaps \ cloud.urlMaps :
              cloud' = [cloud EXCEPT !.urlMaps = @ \cup {x}]
       \/ \E x \in Backing.backendServices \ cloud.backendServices :
              cloud' = [cloud EXCEPT !.backendServices = @ \cup {x}]
       \/ \E x \in Backing.healthChecks \ cloud.healthChecks :
              cloud' = [cloud EXCEPT !.healthChecks = @ \cup {x}]
    /\ UNCHANGED <<now, ticks, passes, queue, run, plan, input, parsed>>

\* the queue holds a delete task once more: push queues deliver at least
\* once, and two passes at the same second add the same tasks
Duplicate ==
    /\ run.op = "none"
    /\ \E r \in BagToSet(queue) :
        /\ Route(r.path) \notin {"httpTargetPoolCheck", "httpForwardingRulesCheck",
                                 "httpFirewallsCheck"}
        /\ CopiesIn(r, queue) < MaxCopies
        /\ queue' = queue (+) SetToBag({r})
        /\ UNCHANGED <<cloud, now, ticks, passes, run, plan, input, parsed>>

\* a request for a delete handler arrives whose expires parameter is missing
\* or does not parse: r.FormValue gives "" or the text as it came
Malformed ==
    /\ run.op = "none"
    /\ \A q \in BagToSet(queue) : q.expires.valid
    /\ \E r \in BagToSet(queue) :
        /\ Route(r.path) \notin {"httpTargetPoolCheck", "httpForwardingRulesCheck",
                                 "httpFirewallsCheck"}
        /\ queue' = queue (+) SetToBag({[r EXCEPT !.expires = NoStamp]})
        /\ UNCHANGED <<cloud, now, ticks, passes, run, plan, input, parsed>>

\* the queue takes in the answer of the run: a task answered with a 2xx
\* status is done, any other one stays in the queue and is delivered again
Answer ==
    /\ run.op # "none"
    /\ queue' = IF run.task # NoTask /\ Success(run.status)
                THEN queue (-) SetToBag({run.task})
                ELSE queue
    /\ run' = Idle
    /\ UNCHANGED <<cloud, now, ticks, passes, plan, input, parsed>>

\* no path is routed to httpSslCertificatesDelete: it never runs
Next ==
    \/ Tick
    \/ ForwardingRulesCheck
    \/ TargetPoolCheck
    \/ ForwardingRulesDelete
    \/ UrlMapsDelete
    \/ BackendServicesDelete
    \/ HealthChecksDelete
    \/ TargetProxiesDelete
    \/ DeletedElsewhere
    \/ Answer

Spec == Init /\ [][Next]_vars

\* the checks alone, on every project of Clouds
NextCheck ==
    \/ Tick
    \/ ForwardingRulesCheck
    \/ TargetPoolCheck
    \/ Answer

SpecCheck == InitCheck /\ [][NextCheck]_vars

\* no handler meets a failure of its own: the app is built, the API answers
\* every call by the state of the project alone
NextHeal == Next /\ run'.fault = NoFault

SpecHeal == Init /\ [][NextHeal]_vars

\* the pipeline with tasks that are in the queue more than once
NextDuplicate ==
    \/ Tick
    \/ ForwardingRulesCheck
    \/ TargetPoolCheck
    \/ ForwardingRulesDelete
    \/ UrlMapsDelete
    \/ BackendServicesDelete
    \/ HealthChecksDelete
    \/ TargetProxiesDelete
    \/ Duplicate
    \/ Answer

SpecDuplicate == Init /\ [][NextDuplicate]_vars

\* the pipeline with requests that lack a stamp
NextMalformed ==
    \/ Tick
    \/ ForwardingRulesCheck
    \/ TargetPoolCheck
    \/ ForwardingRulesDelete
    \/ UrlMapsDelete
    \/ BackendServicesDelete
    \/ HealthChecksDelete
    \/ TargetProxiesDelete
    \/ Malformed
    \/ Answer

SpecMalformed == Init /\ [][NextMalformed]_vars

\* the pipeline in a project that changes while a plan is worked off
NextChurn ==
    \/ Tick
    \/ ForwardingRulesCheck
    \/ TargetPoolCheck
    \/ ForwardingRulesDelete
    \/ UrlMapsDelete
    \/ BackendServicesDelete
    \/ HealthChecksDelete
    \/ TargetProxiesDelete
    \/ DeletedElsewhere
    \/ InstancesAppear
    \/ Recreated
    \/ Answer

SpecChurn == Init /\ [][NextChurn]_vars

\* the queue delivers some delete task
DeliverSome ==
    \/ ForwardingRulesDelete
    \/ UrlMapsDelete
    \/ BackendServicesDelete
    \/ HealthChecksDelete
    \/ TargetProxiesDelete

\* the pipeline with a clock that does not stop before every task has
\* expired
NextLive ==
    \/ Advance
    \/ ForwardingRulesCheck
    \/ TargetPoolCheck
    \/ DeliverSome
    \/ Answer

\* the clock keeps advancing, the queue keeps delivering the delete tasks
\* it holds and takes in every answer
SpecLive ==
    /\ Init
    /\ [][NextLive]_vars
    /\ WF_vars(Advance)
    /\ WF_vars(DeliverSome)
    /\ WF_vars(Answer)

InitFirewall ==
    /\ cloud \in FirewallClouds
    /\ Start

\* the firewall passes alone, on every project of FirewallClouds
NextFirewall ==
    \/ FirewallsCheck
    \/ Answer

SpecFirewall == InitFirewall /\ [][NextFirewall]_vars

InitParse ==
    /\ cloud = Cloud(FALSE, FALSE, FormatRFC3339(StartTime - GraceSeconds), <<Be2>>, 0, 0)
    /\ now = StartTime
    /\ ticks = 0
    /\ passes = 0
    /\ queue = EmptyBag
    /\ run = Idle
    /\ plan = <<>>
    /\ input \in Links
    /\ parsed = NotParsed

\* one of the parsers is applied to the string
ParseLink ==
    /\ parsed = NotParsed
    /\ input # NoLink
    /\ \E parser \in Parsers : parsed' = Parse(parser, input.text)
    /\ UNCHANGED <<cloud, now, ticks, passes, queue, run, plan, input>>

\* the parsers alone, on every string of Links
NextParse == ParseLink

SpecParse == InitParse /\ [][NextParse]_vars

(***************************************************************************)
(* What the properties speak of.                                           *)
(***************************************************************************)
\* the evaluations of the run the queue has not taken in yet
Evals == { run.evals[i] : i \in DOMAIN run.evals }

\* the evaluation got as far as counting instances
Resolved(e) == e.outcome \in {"alive", "dead"}

\* the instance groups of the project a link names
GroupsAt(link) ==
    { g \in cloud.instanceGroups :
        SelfLink(<<"zones", "/">> \o g.zone, "instanceGroups", g.name) = link }

\* the instances the project has in the group a link names
InstancesOf(link) == IF GroupsAt(link) = {} THEN 0 ELSE (CHOOSE g \in GroupsAt(link) : TRUE).instances

\* the same, as far as the run was told: a listing that failed told nothing
CountedOf(link) ==
    IF \E g \in GroupsAt(link) : g.name \in run.fault.lookups THEN 0 ELSE InstancesOf(link)

\* the url maps of the proxy an evaluation is about
UrlMapsOf(e) ==
    { um \in cloud.urlMaps :
        \E tp \in (IF e.isHTTPs THEN cloud.targetHttpsProxies ELSE cloud.targetHttpProxies) :
            tp.name = e.tpname /\ tp.urlMap = SelfLink(Global, "urlMaps", um.name) }

\* the backend services those url maps refer to, by any of their fields
ReferencedServices(e) ==
    { bs \in cloud.backendServices : \E um \in UrlMapsOf(e) : bs.selfLink \in ServiceLinks(um) }

\* no backend service the url map refers to has an instance
TreeEmpty(e) ==
    \A bs \in ReferencedServices(e) : \A i \in DOMAIN bs.backends : InstancesOf(bs.backends[i]) = 0

\* no instance was counted in the services the evaluation collected
CollectedEmpty(e) ==
    \A i \in DOMAIN e.services :
        \A j \in DOMAIN e.services[i].backends : CountedOf(e.services[i].backends[j]) = 0

DeleteHandlers ==
    {"httpForwardingRulesDelete", "httpUrlMapsDelete", "httpBackendServicesDelete",
     "httpHealthChecksDelete", "httpTargetProxiesDelete"}

\* the run in flight is the delivery of a delete task
Delivered == run.op \in DeleteHandlers

\* the delete task in flight carries a stamp that has passed / not passed
Stale == Delivered /\ run.task.expires.valid /\ now > run.task.expires.sec

Fresh == Delivered /\ run.task.expires.valid /\ now <= run.task.expires.sec

\* the delete call of the delivery in flight was answered NotFound
AnsweredNotFound == Fresh /\ run.results = <<[ok |-> FALSE, err |-> NotFoundError]>>

\* the kind of resource a task path names, and the kind a delete call removes
KindOfPath(path) ==
    CASE path = "/job/forwarding-rules/delete" -> "forwarding rule"
      [] path = "/job/target-http-proxies/delete" -> "proxy"
      [] path = "/job/ssl-certificates/delete" -> "certificate"
      [] path = "/job/backend-services/delete" -> "backend service"
      [] path = "/job/health-checks/delete" -> "health check"
      [] path = "/job/url-maps/delete" -> "url map"
      [] OTHER -> "none"

KindOfCall(api) ==
    CASE api \in {"GlobalForwardingRules.Delete", "ForwardingRules.Delete"} -> "forwarding rule"
      [] api \in {"TargetHttpProxies.Delete", "TargetHttpsProxies.Delete"} -> "proxy"
      [] api = "SslCertificates.Delete" -> "certificate"
      [] api \in {"BackendServices.Delete", "RegionBackendServices.Delete"} -> "backend service"
      [] api = "HealthChecks.Delete" -> "health check"
      [] api = "UrlMaps.Delete" -> "url map"
      [] OTHER -> "other"

\* where in a plan the tasks of a path may stand
Rank(path) ==
    CASE KindOfPath(path) = "proxy" -> 1
      [] KindOfPath(path) \in {"certificate", "backend service", "health check"} -> 2
      [] KindOfPath(path) = "url map" -> 3
      [] OTHER -> 4

\* the project no longer has the resource a delete task names
Gone(r) ==
    CASE KindOfPath(r.path) = "forwarding rule" ->
            \A x \in cloud.forwardingRules : x.name # r.name
      [] KindOfPath(r.path) = "proxy" ->
            \A x \in cloud.targetHttpProxies \cup cloud.targetHttpsProxies : x.name # r.name
      [] KindOfPath(r.path) = "certificate" -> r.name \notin cloud.sslCertificates
      [] KindOfPath(r.path) = "backend service" ->
            \A x \in cloud.backendServices : x.name # r.name
      [] KindOfPath(r.path) = "health check" -> r.name \notin cloud.healthChecks
      [] KindOfPath(r.path) = "url map" -> \A x \in cloud.urlMaps : x.name # r.name
      [] OTHER -> TRUE

(***************************************************************************)
(* The properties.                                                         *)
(***************************************************************************)
\* C1: an evaluation adds no task for a proxy created less than an hour
\* before it, whatever its instances; for a proxy created more than an hour
\* before it whose chain resolves and whose tree has no instance, it adds
\* the tasks of a plan.
C1_GraceWindow ==
    \A e \in Evals :
        /\ (e.stamp.valid /\ e.stamp.sec > e.time - GraceSeconds) => e.tasks = <<>>
        /\ (e.stamp.valid /\ e.stamp.sec < e.time - GraceSeconds /\ Resolved(e) /\ TreeEmpty(e))
               => e.tasks # <<>>

\* a proxy younger than an hour, no instance anywhere, is left alone
C1_Witness ==
    \E e \in Evals :
        /\ e.stamp.valid
        /\ e.stamp.sec > e.time - GraceSeconds
        /\ TreeEmpty(e)
        /\ e.tasks = <<>>

\* C2: for a proxy past the grace window whose chain resolves, tasks are
\* added if and only if no instance was counted in any instance group of
\* any backend service the resolver collected (a group whose listing failed
\* adds nothing to the count).
C2_DeadIffSumZero ==
    \A e \in Evals : Resolved(e) => (e.tasks # <<>> <=> CollectedEmpty(e))

\* two services collected, one with an instance and one with none: no task
C2_Witness ==
    \E e \in Evals :
        /\ Resolved(e)
        /\ run.fault.lookups = {}
        /\ \E i, j \in DOMAIN e.services :
              /\ \E k \in DOMAIN e.services[i].backends :
                    InstancesOf(e.services[i].backends[k]) > 0
              /\ \A k \in DOMAIN e.services[j].backends :
                    InstancesOf(e.services[j].backends[k]) = 0
        /\ e.tasks = <<>>

\* C3: the services the resolver collects for a url map are all the backend
\* services the url map refers to, and, every listing answering, a plan is
\* made if and only if none of those services has an instance.
C3_DeadIffEveryServiceEmpty ==
    \A e \in Evals :
        (Resolved(e) /\ run.fault.lookups = {}) =>
            /\ { e.services[i].selfLink : i \in DOMAIN e.services }
                  = { bs.selfLink : bs \in ReferencedServices(e) }
            /\ e.tasks # <<>> <=> TreeEmpty(e)

\* C4: in the tasks of one plan the proxy task comes first, then the
\* certificate, backend-service and health-check tasks, then the url-map
\* task, and the forwarding-rule task last.
C4_EmissionOrder ==
    \A e \in Evals :
        e.tasks # <<>> =>
            /\ Rank(e.tasks[1].path) = 1
            /\ \A i, j \in DOMAIN e.tasks :
                  i < j => Rank(e.tasks[i].path) <= Rank(e.tasks[j].path)
            /\ \A i \in DOMAIN e.tasks : i > 1 => Rank(e.tasks[i].path) > 1

\* a plan with a task of each of the six kinds
C4_Witness ==
    \E e \in Evals :
        { KindOfPath(e.tasks[i].path) : i \in DOMAIN e.tasks }
            = {"proxy", "certificate", "backend service", "health check", "url map",
               "forwarding rule"}

\* C5: every task of a plan carries the same expires value, the time the
\* plan was made plus 15 minutes.
C5_SharedExpiry ==
    \A e \in Evals :
        \A i \in DOMAIN e.tasks :
            /\ e.tasks[i].expires.valid
            /\ e.tasks[i].expires.sec = e.time + ExpirySeconds

\* a plan of several tasks, made after the clock has moved
C5_Witness ==
    \E e \in Evals : Len(e.tasks) > 2 /\ e.time > StartTime

\* C6: a delete task of any kind delivered after its expires stamp is
\* answered with a success status and no call to the compute API is made.
C6_StalePlanDiscard ==
    Stale => (Success(run.status) /\ run.calls = <<>> /\ run.results = <<>>)

\* every handler has answered a task whose stamp had passed: here the one
\* for forwarding rules
C6_Witness ==
    Stale /\ run.op = "httpForwardingRulesDelete" /\ ~Gone(run.task)

\* C7: when the delete call of a task that has not expired is answered
\* NotFound, the handler answers 204 and the queue drops the task.
C7_NotFoundIsDone ==
    [][AnsweredNotFound =>
          /\ run.status = StatusNoContent
          /\ CopiesIn(run.task, queue') = CopiesIn(run.task, queue) - 1]_vars

\* a url map task finds its url map gone
C7_Witness ==
    AnsweredNotFound /\ run.calls[1].api = "UrlMaps.Delete" /\ Gone(run.task)

\* C8: a delete task that has not expired is answered with a success status
\* only when its delete call succeeded or was answered NotFound.
C8_AckOnlyWhenDeleted ==
    (Fresh /\ Success(run.status)) =>
        /\ run.results # <<>>
        /\ \A i \in DOMAIN run.results :
              run.results[i].ok \/ run.results[i].err = NotFoundError

\* C9: the delete call a handler makes for a task that has not expired is
\* the one of the kind of resource the task's path names, on the name the
\* task carries.
C9_DeletesWhatTheTaskNames ==
    Fresh =>
        \A i \in DOMAIN run.calls :
            /\ KindOfCall(run.calls[i].api) = KindOfPath(run.task.path)
            /\ run.calls[i].name = run.task.name

\* C10: with no failure but a resource still being referred to, once every
\* task of a plan has been answered with success before the plan expired,
\* every resource the plan names is gone.
C10_SelfHealing ==
    ( /\ plan # <<>>
      /\ run.op = "none"
      /\ \A i \in DOMAIN plan :
            /\ CopiesIn(plan[i], queue) = 0
            /\ plan[i].expires.valid
            /\ now <= plan[i].expires.sec )
        => \A i \in DOMAIN plan : Gone(plan[i])

\* the resources the tasks an evaluation got into the queue name
AddedResources(e) ==
    { [kind |-> KindOfPath(e.added[i].path), name |-> e.added[i].name] : i \in DOMAIN e.added }

\* the proxies of the project an evaluation is about
ProxiesOf(e) ==
    { tp \in (IF e.isHTTPs THEN cloud.targetHttpsProxies ELSE cloud.targetHttpProxies) :
        tp.name = e.tpname }

\* the resources the full plan of an evaluation names: the proxy, its
\* certificates, the services collected and their health checks, the url
\* map, the forwarding rule when there is one
ExpectedResources(e) ==
    { [kind |-> "proxy", name |-> tp.name] : tp \in ProxiesOf(e) }
    \cup { [kind |-> "certificate", name |-> x] :
             x \in { y \in cloud.sslCertificates :
                       \E tp \in ProxiesOf(e) :
                           SelfLink(Global, "sslCertificates", y) \in Range(tp.sslCertificates) } }
    \cup { [kind |-> "backend service", name |-> e.services[i].name] : i \in DOMAIN e.services }
    \cup { [kind |-> "health check", name |-> x] :
             x \in { y \in cloud.healthChecks :
                       \E i \in DOMAIN e.services :
                           SelfLink(Global, "healthChecks", y) \in Range(e.services[i].healthChecks) } }
    \cup { [kind |-> "url map", name |-> um.name] : um \in UrlMapsOf(e) }
    \cup (IF e.fwname = <<>> THEN {} ELSE { [kind |-> "forwarding rule", name |-> e.fwname] })

\* C11: one evaluation gets into the queue either a task for every resource
\* of the full plan (proxy, certificates, backend services, their health
\* checks, url map, forwarding rule if any) or no task at all.
C11_AllOrNothing ==
    \A e \in Evals : e.added = <<>> \/ AddedResources(e) = ExpectedResources(e)

\* the evaluation stopped at a link that did not resolve
Unresolved(e) ==
    e.outcome \in {"failed to get target proxy", "failed to parse url map selflink",
                   "failed to get url map", "failed to find backend services"}

\* the forwarding rules of a pass and the proxy each one targets
IngressRules ==
    { [fwr |-> fr, name |-> n, https |-> h] :
        fr \in { x \in cloud.forwardingRules : HasPrefix(x.name, <<"k8s-fw">>) },
        n \in {HttpProxyName, HttpsProxyName}, h \in BOOLEAN }

Targeting == { x \in IngressRules : x.fwr.target = ProxyLink(x.https, x.name) }

\* the k8s-tp proxies of the project that no forwarding rule of the pass
\* targets
OrphanProxies ==
    ( { [name |-> tp.name, https |-> FALSE] :
          tp \in { x \in cloud.targetHttpProxies : HasPrefix(x.name, <<"k8s-tp">>) } }
      \cup { [name |-> tp.name, https |-> TRUE] :
          tp \in { x \in cloud.targetHttpsProxies : HasPrefix(x.name, <<"k8s-tp">>) } } )
    \ { [name |-> x.name, https |-> x.https] : x \in Targeting }

\* the run in flight is a pass that listed the forwarding rules and proxies
PassRan ==
    /\ run.op = "httpForwardingRulesCheck"
    /\ run.status = StatusNoContent
    /\ run.fault.api \notin {"list", "proxies"}

\* C12: an evaluation that stops at a proxy, url map or backend service that
\* does not resolve adds no task, and the pass goes on: every forwarding rule
\* gets its check task and every orphan proxy the evaluation it gets when
\* evaluated by itself.
C12_FailureIsLocal ==
    /\ \A e \in Evals : Unresolved(e) => (e.tasks = <<>> /\ e.added = <<>>)
    /\ PassRan =>
          /\ \A x \in Targeting :
                "/job/target-pools/check" \notin run.fault.add =>
                    CopiesIn(CheckTask(x.fwr.name, x.name, Global, x.https), queue) > 0
          /\ \A o \in OrphanProxies :
                \E i \in DOMAIN run.evals :
                    run.evals[i] = checkAndDeleteTargetProxiesIfApplicable(
                                       cloud, now, <<>>, <<>>, o.name, o.https, run.fault)

\* a pass over two orphan proxies: the first does not resolve, the second
\* gets its plan
C12_Witness ==
    /\ PassRan
    /\ \E i, j \in DOMAIN run.evals :
          /\ i < j
          /\ Unresolved(run.evals[i])
          /\ run.evals[j].added # <<>>

RECURSIVE CountedIn(_)
\* the instances the run was told of in a list of instance group links
CountedIn(links) ==
    IF links = <<>> THEN 0 ELSE CountedOf(Head(links)) + CountedIn(Tail(links))

RECURSIVE CountedInAll(_)
\* the same, over the backends of a list of services
CountedInAll(services) ==
    IF services = <<>> THEN 0
    ELSE CountedIn(Head(services).backends) + CountedInAll(Tail(services))

\* an instance group link whose lookup failed in the run although the group
\* has instances
LookupLost(link) == InstancesOf(link) > 0 /\ CountedOf(link) = 0

\* C13: a failed instance group lookup does not abort the evaluation: no
\* evaluation ends in an instance listing error, and the total of an
\* evaluation that got to counting is the instances of the groups whose
\* lookup succeeded, a failed group counting as zero.
C13_LookupBestEffort ==
    \A e \in Evals :
        /\ e.outcome # "failed to list instances for service"
        /\ Resolved(e) => e.total = CountedInAll(e.services)

\* an evaluation that lost the lookup of a group with an instance and still
\* counted the instance of another group
C13_Witness ==
    \E e \in Evals :
        /\ Resolved(e)
        /\ e.total > 0
        /\ \E i \in DOMAIN e.services :
              \E j \in DOMAIN e.services[i].backends : LookupLost(e.services[i].backends[j])

\* C14: a failed instance group lookup never causes deletion tasks for a
\* resource graph in which some instance group has an instance: an
\* evaluation that planned tasks collected no group with an instance.
C14_UnderDeletes ==
    \A e \in Evals :
        e.tasks # <<>> =>
            \A i \in DOMAIN e.services :
                \A j \in DOMAIN e.services[i].backends :
                    InstancesOf(e.services[i].backends[j]) = 0

\* the evaluations the pass in flight made of one proxy
PassEvaluationsOf(name, https) ==
    { i \in DOMAIN run.evals : run.evals[i].tpname = name /\ run.evals[i].isHTTPs = https }

\* C18: in a pass every k8s-tp proxy that no forwarding rule of the pass
\* targets is evaluated through the orphan path, a targeted proxy is not,
\* and a plan of the orphan path has no forwarding rule task.
C18_OrphanScan ==
    /\ PassRan =>
          /\ \A o \in OrphanProxies :
                \E i \in PassEvaluationsOf(o.name, o.https) : run.evals[i].fwname = <<>>
          /\ \A x \in Targeting : PassEvaluationsOf(x.name, x.https) = {}
    /\ \A e \in Evals :
          e.fwname = <<>> =>
              \A i \in DOMAIN e.tasks : e.tasks[i].path # "/job/forwarding-rules/delete"

\* a pass with a targeted proxy and an orphan proxy whose plan was made
C18_Witness ==
    /\ PassRan
    /\ Targeting # {}
    /\ \E o \in OrphanProxies :
          \E i \in PassEvaluationsOf(o.name, o.https) : run.evals[i].tasks # <<>>

\* the gke- tags some instance of some zone of the project has
ObservedTags ==
    UNION { UNION { GkeTags(cloud.zones[k].instances[i]) :
                      i \in DOMAIN cloud.zones[k].instances } : k \in DOMAIN cloud.zones }

\* the rule has a gke- tag that an instance has
KeyedByLive(fw) == GkeTags(fw.targetTags) \cap ObservedTags # {}

\* the rule has a gke- tag that no instance has
KeyedByDead(fw) == GkeTags(fw.targetTags) \ ObservedTags # {}

\* the step is a firewall pass
FirewallPass == run.op = "none" /\ run'.op = "httpFirewallsCheck"

\* C15: a firewall pass deletes no rule that has a gke- tag observed on an
\* instance of some zone, whatever other tags the rule has.
C15_FirewallSafety ==
    [][FirewallPass =>
          \A fw \in Range(cloud.firewalls) :
              KeyedByLive(fw) => fw \in Range(cloud'.firewalls)]_vars

\* C16: after a firewall pass in which no call failed for a reason of its
\* own, the project has no rule with a gke- tag that no instance has.
C16_FirewallCompleteness ==
    (run.op = "httpFirewallsCheck" /\ run.fault = NoFirewallFault) =>
        \A fw \in Range(cloud.firewalls) : ~KeyedByDead(fw)

\* the listing of the pass fails: the rules, the zones, or the instances of
\* a zone the scan gets to, which it does when some gke- tag of a rule is on
\* no instance of the zones before it
ListingFails(fault) ==
    \/ fault.api \in {"firewalls", "zones"}
    \/ /\ fault.api = "instances"
       /\ \E i \in DOMAIN cloud.firewalls :
             \E tag \in GkeTags(cloud.firewalls[i].targetTags) :
                 \A k \in 1..(fault.zone - 1) :
                     \A j \in DOMAIN cloud.zones[k].instances :
                         tag \notin GkeTags(cloud.zones[k].instances[j])

\* C17: the first error of a firewall pass ends it: a delete call that
\* fails is the last call of the pass, and a pass whose listing fails makes
\* no delete call and leaves every rule in place.
C17_FirstErrorEndsPass ==
    [][FirewallPass =>
          /\ \A i \in DOMAIN run'.results :
                ~run'.results[i].ok => i = Len(run'.calls)
          /\ (~run'.fault.app /\ ListingFails(run'.fault)) =>
                (run'.calls = <<>> /\ cloud' = cloud /\ ~Success(run'.status))]_vars

\* a pass that deleted a rule, then met a delete call that failed, and left
\* a rule of a tag without instances in place
C17_Witness ==
    /\ run.op = "httpFirewallsCheck"
    /\ Len(run.calls) >= 2
    /\ ~run.results[Len(run.calls)].ok
    /\ \E fw \in Range(cloud.firewalls) : KeyedByDead(fw)

\* the collections a parser looks for
KeywordsOf(parser) ==
    CASE parser = "ParseTargetProxy" -> {"targetHttpProxies", "targetHttpsProxies"}
      [] parser = "ParseUrlMap" -> {"urlMaps"}
      [] parser = "ParseInstanceGroup" -> {"instanceGroups"}
      [] parser \in {"ParseService", "ParseBackendServices"} -> {"backendServices"}
      [] parser = "ParseSslCertificates" -> {"sslCertificates"}
      [] parser = "ParseHealthChecks" -> {"healthChecks"}
      [] OTHER -> {}

\* a parser was applied to a string with one of its keywords
ParsedOwn == parsed.parser # "none" /\ input.keyword \in KeywordsOf(parsed.parser)

\* C19: for a self-link <prefix>/<scope>/<keyword>/<name> the parser of the
\* keyword returns no error, the name, and the segment before the keyword
\* as the scope; ParseTargetProxy says isHTTPs exactly for
\* targetHttpsProxies.
C19_ParseSelfLink ==
    (ParsedOwn /\ input.shape = "selflink") =>
        /\ ~parsed.err
        /\ parsed.name = input.name
        /\ parsed.region = input.scope
        /\ parsed.parser = "ParseTargetProxy" =>
              (parsed.isHTTPs <=> input.keyword = "targetHttpsProxies")

\* the self-link of an HTTPS proxy with a scope of two segments was parsed
C19_Witness ==
    /\ ParsedOwn
    /\ input.shape = "selflink"
    /\ input.keyword = "targetHttpsProxies"
    /\ input.scope # Global
    /\ parsed.isHTTPs

\* C20: a parser returns an error for a string without its keyword, for
\* one without a "/" before the scope segment, and for one without a "/"
\* and a name after the keyword.
C20_ParseError ==
    parsed.parser # "none" =>
        /\ ~ParsedOwn => parsed.err
        /\ (ParsedOwn /\ input.shape \in {"noscope", "noname"}) => parsed.err

\* no target tag of the rule starts with gke-
NoGkeTag(fw) == \A j \in DOMAIN fw.targetTags : ~HasPrefix(fw.targetTags[j], <<"gke-">>)

\* the rules ListDanglingFirewalls can return for the project as it is
Returned ==
    UNION { Range(ListDanglingFirewalls(cloud, order, fault).list) :
              order \in TagOrders, fault \in FirewallFaults }

\* C29: a firewall rule without any gke- target tag is never returned by
\* ListDanglingFirewalls, and a firewall pass makes no delete call for it
\* and leaves it in place.
C29_OtherRulesUntouched ==
    [][FirewallPass =>
          \A fw \in Range(cloud.firewalls) :
              NoGkeTag(fw) =>
                  /\ fw \notin Returned
                  /\ \A i \in DOMAIN run'.calls : run'.calls[i].name # fw.name
                  /\ fw \in Range(cloud'.firewalls)]_vars

\* a pass deleted a rule and a rule without gke- tags is in place
C29_Witness ==
    /\ run.op = "httpFirewallsCheck"
    /\ \E i \in DOMAIN run.results : run.results[i].ok
    /\ \E fw \in Range(cloud.firewalls) : NoGkeTag(fw)

\* C30: a firewall pass makes at most one delete call per firewall rule.
C30_OneDeletePerRule ==
    run.op = "httpFirewallsCheck" =>
        \A i, j \in DOMAIN run.calls : run.calls[i].name = run.calls[j].name => i = j

\* the link is the selfLink of an HTTP or HTTPS target proxy
IsProxyLink(target) ==
    \E h \in BOOLEAN, n \in {HttpProxyName, HttpsProxyName, OtherProxyName} :
        target = ProxyLink(h, n)

\* the forwarding rules of the project the pipeline may work on
CandidateRules ==
    { fr \in cloud.forwardingRules :
        HasPrefix(fr.name, <<"k8s-fw">>) /\ IsProxyLink(fr.target) }

\* the tasks in the queue and the tasks the run in flight planned
KnownTasks == BagToSet(queue) \cup UNION { Range(e.tasks) : e \in Evals }

\* C21: every forwarding rule deletion task names a k8s-fw... forwarding
\* rule whose target is an HTTP(S) proxy, every check task is for such a
\* rule, and every proxy evaluated without a forwarding rule is a k8s-tp...
\* one.
C21_BlastRadius ==
    /\ \A task \in KnownTasks :
          task.path = "/job/forwarding-rules/delete" =>
              \E fr \in CandidateRules : fr.name = task.name
    /\ \A task \in KnownTasks :
          task.path = "/job/target-pools/check" =>
              \E fr \in CandidateRules : fr.name = task.forwarding_rule
    /\ \A e \in Evals : e.fwname = <<>> => HasPrefix(e.tpname, <<"k8s-tp">>)

\* the project has a forwarding rule that is no candidate, and a deletion
\* task for a forwarding rule is in the queue
C21_Witness ==
    /\ cloud.forwardingRules \ CandidateRules # {}
    /\ \E task \in BagToSet(queue) : task.path = "/job/forwarding-rules/delete"

\* the step is the delivery of a delete task
DeliveryStep == run.op = "none" /\ run'.op \in DeleteHandlers

\* the project without the resource a delete task names
Minus(r) ==
    CASE KindOfPath(r.path) = "forwarding rule" ->
            [cloud EXCEPT !.forwardingRules = { x \in @ : x.name # r.name }]
      [] KindOfPath(r.path) = "proxy" /\ ParseBool(r.https) ->
            [cloud EXCEPT !.targetHttpsProxies = { x \in @ : x.name # r.name }]
      [] KindOfPath(r.path) = "proxy" /\ ~ParseBool(r.https) ->
            [cloud EXCEPT !.targetHttpProxies = { x \in @ : x.name # r.name }]
      [] KindOfPath(r.path) = "certificate" ->
            [cloud EXCEPT !.sslCertificates = @ \ {r.name}]
      [] KindOfPath(r.path) = "backend service" ->
            [cloud EXCEPT !.backendServices = { x \in @ : x.name # r.name }]
      [] KindOfPath(r.path) = "health check" ->
            [cloud EXCEPT !.healthChecks = @ \ {r.name}]
      [] KindOfPath(r.path) = "url map" ->
            [cloud EXCEPT !.urlMaps = { x \in @ : x.name # r.name }]
      [] OTHER -> cloud

NoDeleteTask ==
    /\ run.op = "none"
    /\ \A r \in BagToSet(queue) : Route(r.path) \notin DeleteHandlers

\* C23: every delete task leaves the queue: again and again the queue holds
\* no delete task, whatever the delete calls return, and a delivery after
\* the stamp of the task is answered with a success status.
C23_TasksEnd ==
    /\ []<>NoDeleteTask
    /\ [][(DeliveryStep /\ run'.task.expires.valid /\ now > run'.task.expires.sec)
              => Success(run'.status)]_vars

\* a url map task is delivered after its stamp with its url map in place
C23_Witness ==
    /\ Stale
    /\ run.op = "httpUrlMapsDelete"
    /\ ~Gone(run.task)
    /\ ~run.fault.app
    /\ run.calls = <<>>
    /\ Success(run.status)

\* C24: a forwarding rule deletion task carries the scope of the forwarding
\* rule it names: "global" for a global rule, the region of a regional one.
C24_ScopeOfRule ==
    \A task \in KnownTasks :
        task.path = "/job/forwarding-rules/delete" =>
            \E fr \in cloud.forwardingRules :
                fr.name = task.name /\ fr.region = task.region

\* C25: a worker makes its delete call only while the stamp of the task,
\* the time of the evaluation plus 15 minutes, has not passed; until then it
\* makes the call whatever instances the project has by now, and after it
\* it makes no call and leaves the project as it is.
C25_WindowOfAPlan ==
    /\ [][DeliveryStep =>
            /\ run'.calls # <<>> => (run'.task.expires.valid /\ now <= run'.task.expires.sec)
            /\ (run'.task.expires.valid /\ now <= run'.task.expires.sec /\ ~run'.fault.app)
                  => run'.calls # <<>>
            /\ (run'.task.expires.valid /\ now > run'.task.expires.sec)
                  => (run'.calls = <<>> /\ cloud' = cloud)]_vars
    /\ [](\A e \in Evals : \A i \in DOMAIN e.tasks :
              e.tasks[i].expires = FormatRFC3339(e.time + ExpirySeconds))

\* a delete call succeeded although every instance group has an instance
\* by now
C25_Witness ==
    /\ Fresh
    /\ run.results # <<>>
    /\ run.results[1].ok
    /\ cloud.instanceGroups # {}
    /\ \A g \in cloud.instanceGroups : g.instances > 0

\* C26: no two tasks of one plan name the same resource, whatever path rules
\* name one backend service and whatever backend services share a health
\* check.
C26_OneTaskPerResource ==
    \A e \in Evals : \A i, j \in DOMAIN e.tasks :
        (e.tasks[i].path = e.tasks[j].path /\ e.tasks[i].name = e.tasks[j].name) => i = j

\* the delete task in flight carries no stamp that parses
Unstamped == Delivered /\ ~run.task.expires.valid

\* C27: a delete task whose expires parameter is missing or does not parse
\* is answered with a success status without a call to the compute API, the
\* project stays as it is, and the queue drops the task.
C27_UnstampedIsExpired ==
    /\ [][(DeliveryStep /\ ~run'.task.expires.valid) =>
            (Success(run'.status) /\ run'.calls = <<>> /\ cloud' = cloud)]_vars
    /\ [][(Unstamped /\ run'.op = "none") =>
            CopiesIn(run.task, queue') = CopiesIn(run.task, queue) - 1]_vars

\* a backend service task without a stamp was delivered before the plan
\* expired, and its backend service exists
C27_Witness ==
    /\ Unstamped
    /\ run.op = "httpBackendServicesDelete"
    /\ ~Gone(run.task)
    /\ PlanInForce

\* C28: a proxy whose creation stamp does not parse has no grace window: an
\* evaluation of it whose chain resolves and whose tree has no instance adds
\* the tasks of a plan, at any time.
C28_UnparsedStampIsOld ==
    \A e \in Evals :
        /\ ~e.stamp.valid => e.outcome # "young"
        /\ (~e.stamp.valid /\ Resolved(e) /\ TreeEmpty(e)) =>
               (e.outcome = "dead" /\ e.tasks # <<>>)

\* a proxy without a stamp that parses, no instance anywhere, got a plan
C28_Witness ==
    \E e \in Evals :
        /\ ~e.stamp.valid
        /\ Resolved(e)
        /\ TreeEmpty(e)
        /\ e.outcome = "dead"
        /\ e.tasks # <<>>
====
